---- MODULE Spec2Model ----
(***************************************************************************)
(* Model of the cache/registry reconciliation of the autostart console     *)
(* tool (src/main.go): the Run key of the registry, the JSON cache file    *)
(* autostart.json, the startup synchronisation and the menu handlers that  *)
(* add, remove, enable and disable startup items.                          *)
(*                                                                         *)
(* The registry is the key-value store the code reaches through            *)
(* golang.org/x/sys/windows/registry: value names are compared exactly, as *)
(* the Go map and findItemByName compare them.                             *)
(***************************************************************************)
EXTENDS Integers, Sequences, FiniteSets, TLC

\* Number of distinct registry value names / program names.
NumNames == 2

Names == 1..NumNames

(***************************************************************************)
(* Registry values.  A name of the Run key is absent, holds a value that   *)
(* is not of string type (GetStringValue fails on it), or holds a string:  *)
(* the quoted absolute path of a program, or a command line.               *)
(***************************************************************************)
Absent == [t |-> "absent", x |-> 0]

NonString == [t |-> "nonstring", x |-> 0]

Command == [t |-> "cmd", x |-> 0]

\* The executable paths selectExeFile returns: as the user typed them ("raw",
\* not in canonical form) or canonical absolute ("abs"), one program file per
\* name (getAppName of the path is that name).
ExePaths == [t : {"raw", "abs"}, x : Names]

\* filepath.Abs: the canonical absolute path of the same file.
Abs(path) == [t |-> "abs", x |-> path.x]

\* fmt.Sprintf(`"%s"`, p): the path wrapped in double quotes.
Quote(path) == [t |-> IF path.t = "abs" THEN "quotedAbs" ELSE "quotedRaw", x |-> path.x]

\* getAppName: base name of the path without its extension.
getAppName(exePath) == exePath.x

\* The strings a registry value or a cache item of name n holds in the model.
StrVals(n) == {Quote([t |-> "abs", x |-> n]), Command}

RegVals(n) == StrVals(n) \cup {Absent, NonString}

IsString(v) == v.t \notin {"absent", "nonstring"}

(***************************************************************************)
(* State.                                                                  *)
(***************************************************************************)
VARIABLES
    reg,        \* the Run key: name -> value
    fileState,  \* the cache file: "missing", "valid" or "corrupt"
    items,      \* CacheData.Items of a valid cache file (<<>> otherwise)
    pc,         \* "stopped", "menu", "registryStep", "cacheStep", "done"
    op,         \* the handler in progress (NoOp when none is)
    result,     \* the handler that has just ended, and how it ended
    syncRun,    \* history: consecutive completed syncs, nothing in between (0..2)
    preDisable, \* history: the name last disabled and its registry value before
    interrupted \* history: the handler a crash cut short, until the next menu

vars == <<reg, fileState, items, pc, op, result, syncRun, preDisable, interrupted>>

CacheItem(n, v, e) == [name |-> n, value |-> v, enabled |-> e]

NoOp == [kind |-> "none", name |-> 0, value |-> Absent]

Result(kind, io, msg) == [kind |-> kind, io |-> io, msg |-> msg]

NoValue == [name |-> 0, value |-> Absent]

(***************************************************************************)
(* Cache helpers.                                                          *)
(***************************************************************************)
\* loadCache: a missing file is an empty document, an undecodable one an error.
loadCache(fs, its) ==
    IF fs = "missing" THEN [err |-> FALSE, data |-> <<>>]
    ELSE IF fs = "corrupt" THEN [err |-> TRUE, data |-> <<>>]
    ELSE [err |-> FALSE, data |-> its]

\* saveCache: os.Create and Encode; on failure the file is left as it was.
saveCache(data, fault) ==
    IF fault = "none"
    THEN fileState' = "valid" /\ items' = data
    ELSE UNCHANGED <<fileState, items>>

\* findItemByName: index (0-based, as in the code) of the first item of that
\* name, -1 when there is none.
findItemByName(data, name) ==
    IF \E i \in 1..Len(data) : data[i].name = name
    THEN (CHOOSE i \in 1..Len(data) :
             /\ data[i].name = name
             /\ \A j \in 1..(i - 1) : data[j].name # name) - 1
    ELSE -1

\* Mutant of addOrUpdateItem: the item is appended without a lookup.
addOrUpdateItemAppend(data, name, value, enabled) ==
    Append(data, CacheItem(name, value, enabled))

\* Mutant of addOrUpdateItem: an item found is given the value and keeps its
\* enabled flag.
addOrUpdateItemKeepsFlag(data, name, value, enabled) ==
    LET idx == findItemByName(data, name)
    IN  IF idx >= 0
        THEN [data EXCEPT ![idx + 1].value = value]
        ELSE Append(data, CacheItem(name, value, enabled))

\* addOrUpdateItem: update in place or append.
addOrUpdateItem(data, name, value, enabled) ==
    LET idx == findItemByName(data, name)
    IN  IF idx >= 0
        THEN [data EXCEPT ![idx + 1] = CacheItem(name, value, enabled)]
        ELSE Append(data, CacheItem(name, value, enabled))

\* Mutant of removeItem: the slice is cut at the item, dropping what follows.
removeItemTruncate(data, name) ==
    LET idx == findItemByName(data, name)
    IN  IF idx >= 0 THEN SubSeq(data, 1, idx) ELSE data

\* removeItem: delete the item of that name, if any.
removeItem(data, name) ==
    LET idx == findItemByName(data, name)
    IN  IF idx >= 0
        THEN SubSeq(data, 1, idx) \o SubSeq(data, idx + 2, Len(data))
        ELSE data

(***************************************************************************)
(* Registry helpers: each returns the error and the registry afterwards.   *)
(***************************************************************************)
\* AddToStartup: stat the file, open the key, set the quoted absolute path.
AddToStartup(r, exePath, appName, fileExists, fault) ==
    IF ~fileExists THEN [err |-> "noFile", reg |-> r]
    ELSE IF fault # "none" THEN [err |-> "regError", reg |-> r]
    ELSE [err |-> "none", reg |-> [r EXCEPT ![appName] = Quote(Abs(exePath))]]

\* Mutant of AddCommandToStartup: the command is wrapped in quotes, as
\* AddToStartup wraps a path.
AddCommandToStartupQuoted(r, command, appName, fault) ==
    IF fault # "none" THEN [err |-> "regError", reg |-> r]
    ELSE [err |-> "none", reg |-> [r EXCEPT ![appName] = Quote(command)]]

\* AddCommandToStartup: open the key, set the command verbatim.
AddCommandToStartup(r, command, appName, fault) ==
    IF fault # "none" THEN [err |-> "regError", reg |-> r]
    ELSE [err |-> "none", reg |-> [r EXCEPT ![appName] = command]]

\* RemoveFromStartup: open the key, delete the value; ErrNotExist is an
\* error of its own.
RemoveFromStartup(r, appName, fault) ==
    IF fault # "none" THEN [err |-> "regError", reg |-> r]
    ELSE IF r[appName] = Absent THEN [err |-> "notFound", reg |-> r]
    ELSE [err |-> "none", reg |-> [r EXCEPT ![appName] = Absent]]

(***************************************************************************)
(* syncCacheFromRegistry.                                                  *)
(***************************************************************************)
\* Mutant of registryItems: the error of GetStringValue is dropped and every
\* value name of the key is entered.
registryItemsAllNames(r) == {n \in Names : r[n] # Absent}

\* registryItems: the names whose value reads as a string.
registryItems(r) == {n \in Names : IsString(r[n])}

\* Mutant of syncDisablePass: the disable pass is skipped.
syncDisablePassSkipped(data, r) == data

\* Step 1: items whose name is not in registryItems are marked disabled.
syncDisablePass(data, r) ==
    [i \in 1..Len(data) |->
        IF data[i].name \in registryItems(r)
        THEN data[i]
        ELSE [data[i] EXCEPT !.enabled = FALSE]]

\* Mutant of syncEnablePass: an existing item is marked enabled but keeps
\* its old value.
RECURSIVE syncEnablePassStaleValue(_, _, _)
syncEnablePassStaleValue(data, r, order) ==
    IF order = <<>> THEN data
    ELSE LET name == Head(order)
             idx == findItemByName(data, name)
             next == IF idx >= 0
                     THEN [data EXCEPT ![idx + 1].enabled = TRUE]
                     ELSE Append(data, CacheItem(name, r[name], TRUE))
         IN  syncEnablePassStaleValue(next, r, Tail(order))

\* Mutant of syncEnablePass: every registry name is appended, found or not.
RECURSIVE syncEnablePassAppend(_, _, _)
syncEnablePassAppend(data, r, order) ==
    IF order = <<>> THEN data
    ELSE syncEnablePassAppend(
             Append(data, CacheItem(Head(order), r[Head(order)], TRUE)),
             r, Tail(order))

\* Step 2: for each registry name, in the order the map is ranged over,
\* update the item in place or append a new enabled one.
RECURSIVE syncEnablePass(_, _, _)
syncEnablePass(data, r, order) ==
    IF order = <<>> THEN data
    ELSE LET name == Head(order)
             idx == findItemByName(data, name)
             next == IF idx >= 0
                     THEN [data EXCEPT ![idx + 1].value = r[name],
                                       ![idx + 1].enabled = TRUE]
                     ELSE Append(data, CacheItem(name, r[name], TRUE))
         IN  syncEnablePass(next, r, Tail(order))

\* The orders in which Go may range over a map with these keys.
RECURSIVE MapOrders(_)
MapOrders(S) ==
    IF S = {} THEN {<<>>}
    ELSE UNION {{<<n>> \o o : o \in MapOrders(S \ {n})} : n \in S}

\* Mutant of syncCache: the registry names are merged into the cache, the
\* items the registry no longer holds are left as they were.
syncCacheMergeOnly(data, r, order) == syncEnablePass(data, r, order)

syncCache(data, r, order) == syncEnablePass(syncDisablePass(data, r), r, order)

(***************************************************************************)
(* Faults the environment may inject.                                      *)
(***************************************************************************)
IOFaults(faulty) == IF faulty THEN {"none", "fail"} ELSE {"none"}

FileExists(faulty) == IF faulty THEN BOOLEAN ELSE {TRUE}

(***************************************************************************)
(* Initial state: no process running, no cache file yet, the Run key as    *)
(* other programs left it.                                                 *)
(***************************************************************************)
InitCommon ==
    /\ fileState = "missing"
    /\ items = <<>>
    /\ pc = "stopped"
    /\ op = NoOp
    /\ result = Result("none", "none", "none")
    /\ syncRun = 0
    /\ preDisable = NoValue
    /\ interrupted = "none"

Init ==
    /\ reg \in [Names -> {Absent, NonString, Command}]
    /\ \A n \in Names : reg[n] \in RegVals(n)
    /\ InitCommon

InitClean ==
    /\ reg \in [Names -> {Absent, Command}]
    /\ InitCommon

(***************************************************************************)
(* init(): the process starts and synchronises the cache; main then shows  *)
(* the menu (Return).                                                      *)
(***************************************************************************)
Startup(faulty) ==
    /\ pc = "stopped"
    /\ pc' = "done"
    /\ preDisable' = NoValue
    /\ UNCHANGED <<reg, op, interrupted>>
    /\ LET cache == loadCache(fileState, items)
       IN  IF cache.err
           THEN /\ result' = Result("Sync", "loadError", "none")
                /\ syncRun' = 0
                /\ UNCHANGED <<fileState, items>>
           ELSE \E rf \in IOFaults(faulty) :
                IF rf # "none"
                THEN /\ result' = Result("Sync", "regError", "none")
                     /\ syncRun' = 0
                     /\ UNCHANGED <<fileState, items>>
                ELSE \E order \in MapOrders(registryItems(reg)),
                        sf \in IOFaults(faulty) :
                        /\ saveCache(syncCache(cache.data, reg, order), sf)
                        /\ result' = Result("Sync",
                                             IF sf = "none" THEN "ok" ELSE "saveError",
                                             "none")
                        /\ syncRun' = IF sf # "none" THEN 0
                                      ELSE IF syncRun = 0 THEN 1 ELSE 2

(***************************************************************************)
(* The handlers, up to the point where the user has confirmed.             *)
(***************************************************************************)
Begin(kind, name, value) ==
    /\ pc = "menu"
    /\ pc' = "registryStep"
    /\ op' = [kind |-> kind, name |-> name, value |-> value]
    /\ result' = Result(kind, "pending", "none")
    /\ syncRun' = 0
    /\ UNCHANGED <<reg, fileState, items, interrupted>>

\* A handler that returns to the menu before touching anything.
Refuse(kind, io) ==
    /\ pc = "menu"
    /\ pc' = "done"
    /\ result' = Result(kind, io, "error")
    /\ syncRun' = 0
    /\ preDisable' = NoValue
    /\ UNCHANGED <<reg, fileState, items, op, interrupted>>

handleAddToStartup ==
    \E exePath \in ExePaths :
        /\ Begin("AddProgram", getAppName(exePath), exePath)
        /\ preDisable' = NoValue

handleAddCommand ==
    \E appName \in Names : \E command \in StrVals(appName) :
        /\ Begin("AddCommand", appName, command)
        /\ preDisable' = NoValue

\* Mutant of handleRemoveFromStartup: the list offered is taken from the
\* cache, disabled items included, not from the Run key.
handleRemoveFromStartupOffersCache(faulty) ==
    LET cache == loadCache(fileState, items)
    IN  IF cache.err
        THEN Refuse("Remove", "loadError")
        ELSE \E i \in 1..Len(cache.data) :
                /\ Begin("Remove", cache.data[i].name, Absent)
                /\ preDisable' = NoValue

\* The names offered are the value names of the Run key, read when the
\* handler starts.
handleRemoveFromStartup(faulty) ==
    \E rf \in IOFaults(faulty) :
        IF rf # "none"
        THEN Refuse("Remove", "regError")
        ELSE \E name \in {n \in Names : reg[n] # Absent} :
                /\ Begin("Remove", name, Absent)
                /\ preDisable' = NoValue

handleEnable ==
    LET cache == loadCache(fileState, items)
    IN  IF cache.err
        THEN Refuse("Enable", "loadError")
        ELSE \E i \in 1..Len(cache.data) :
                /\ ~cache.data[i].enabled
                /\ Begin("Enable", cache.data[i].name, cache.data[i].value)
                /\ preDisable' =
                      IF preDisable.name = cache.data[i].name
                      THEN preDisable ELSE NoValue

handleDisable ==
    LET cache == loadCache(fileState, items)
    IN  IF cache.err
        THEN Refuse("Disable", "loadError")
        ELSE \E i \in 1..Len(cache.data) :
                /\ cache.data[i].enabled
                /\ Begin("Disable", cache.data[i].name, cache.data[i].value)
                /\ preDisable' = NoValue

(***************************************************************************)
(* The registry call of the handler in progress.                           *)
(***************************************************************************)
\* Mutant of RegistryCall: the handler goes on to its cache update without
\* having written the registry.
RegistryCallSkipped(fileExists, fault) == [err |-> "none", reg |-> reg]

RegistryCall(fileExists, fault) ==
    CASE op.kind = "AddProgram" ->
            AddToStartup(reg, op.value, op.name, fileExists, fault)
      [] op.kind \in {"AddCommand", "Enable"} ->
            AddCommandToStartup(reg, op.value, op.name, fault)
      [] op.kind \in {"Remove", "Disable"} ->
            RemoveFromStartup(reg, op.name, fault)

\* Mutant of RegistryStep: the handler reports the error of the registry
\* call and falls through to its cache update.
RegistryStepFallThrough(faulty) ==
    /\ pc = "registryStep"
    /\ pc' = "cacheStep"
    /\ \E fileExists \in FileExists(faulty), fault \in IOFaults(faulty) :
         LET r == RegistryCall(fileExists, fault)
         IN  /\ reg' = r.reg
             /\ result' = IF r.err = "none" THEN result
                          ELSE Result(op.kind, r.err, "error")
    /\ UNCHANGED <<fileState, items, op, syncRun, preDisable, interrupted>>

RegistryStep(faulty) ==
    /\ pc = "registryStep"
    /\ \E fileExists \in FileExists(faulty), fault \in IOFaults(faulty) :
         LET r == RegistryCall(fileExists, fault)
         IN  /\ reg' = r.reg
             /\ IF r.err = "none"
                THEN /\ pc' = "cacheStep"
                     /\ preDisable' = IF op.kind = "Disable"
                                      THEN [name |-> op.name, value |-> reg[op.name]]
                                      ELSE preDisable
                     /\ UNCHANGED <<op, result>>
                ELSE /\ pc' = "done"
                     /\ op' = NoOp
                     /\ result' = Result(op.kind, r.err, "error")
                     /\ preDisable' = NoValue
    /\ UNCHANGED <<fileState, items, syncRun, interrupted>>

(***************************************************************************)
(* The cache update of the handler in progress.  The add and remove        *)
(* handlers load the cache here and drop the error; the enable and disable *)
(* handlers loaded it before the registry call (the file is written by     *)
(* this process alone, so it still holds what they loaded).                *)
(***************************************************************************)
\* Mutant of CacheUpdate: handleAddToStartup caches the quoted path as the
\* user gave it, not the quoted absolute path written to the registry.
CacheUpdateUnresolvedPath(data) ==
    CASE op.kind = "AddProgram" ->
            addOrUpdateItem(data, op.name, Quote(op.value), TRUE)
      [] op.kind = "AddCommand" ->
            addOrUpdateItem(data, op.name, op.value, TRUE)
      [] op.kind = "Remove" ->
            removeItem(data, op.name)
      [] op.kind = "Enable" ->
            addOrUpdateItem(data, op.name, op.value, TRUE)
      [] op.kind = "Disable" ->
            addOrUpdateItem(data, op.name, op.value, FALSE)

\* What the handler stores in the cache after its registry call succeeded.
CacheUpdate(data) ==
    CASE op.kind = "AddProgram" ->
            addOrUpdateItem(data, op.name, Quote(Abs(op.value)), TRUE)
      [] op.kind = "AddCommand" ->
            addOrUpdateItem(data, op.name, op.value, TRUE)
      [] op.kind = "Remove" ->
            removeItem(data, op.name)
      [] op.kind = "Enable" ->
            addOrUpdateItem(data, op.name, op.value, TRUE)
      [] op.kind = "Disable" ->
            addOrUpdateItem(data, op.name, op.value, FALSE)

CacheStep(faulty) ==
    /\ pc = "cacheStep"
    /\ LET cache == loadCache(fileState, items)
       IN  IF cache.err
           THEN \* addOrUpdateItem / removeItem on the nil *CacheData: panic
                /\ pc' = "stopped"
                /\ result' = Result(op.kind, "panic", "none")
                /\ preDisable' = NoValue
                /\ UNCHANGED <<fileState, items>>
           ELSE \E sf \in IOFaults(faulty) :
                /\ saveCache(CacheUpdate(cache.data), sf)
                /\ pc' = "done"
                /\ result' = Result(op.kind,
                                     IF sf = "none" THEN "ok" ELSE "saveError",
                                     "success")
                /\ preDisable' = IF sf = "none" THEN preDisable ELSE NoValue
    /\ op' = NoOp
    /\ UNCHANGED <<reg, syncRun, interrupted>>

(***************************************************************************)
(* showStartupStatus: loads the cache, sorts its own copy, prints.         *)
(***************************************************************************)
\* sort.Slice by Name: the items in ascending order of their names.
RECURSIVE sortByName(_)
sortByName(data) ==
    IF data = <<>> THEN <<>>
    ELSE LET m == CHOOSE i \in 1..Len(data) :
                     \A j \in 1..Len(data) :
                        /\ data[i].name <= data[j].name
                        /\ data[i].name = data[j].name => i <= j
         IN  <<data[m]>> \o
             sortByName(SubSeq(data, 1, m - 1) \o SubSeq(data, m + 1, Len(data)))

\* Mutant of showStartupStatus: the sorted copy is saved.
showStartupStatusSaves ==
    /\ pc = "menu"
    /\ pc' = "done"
    /\ LET cache == loadCache(fileState, items)
       IN  IF cache.err
           THEN /\ result' = Result("Status", "loadError", "error")
                /\ UNCHANGED <<fileState, items>>
           ELSE /\ result' = Result("Status", "ok", "none")
                /\ saveCache(sortByName(cache.data), "none")
    /\ syncRun' = 0
    /\ preDisable' = NoValue
    /\ UNCHANGED <<reg, op, interrupted>>

\* The sorted list is printed from the copy loadCache returned; the copy is
\* dropped when the handler returns.
showStartupStatus ==
    /\ pc = "menu"
    /\ pc' = "done"
    /\ LET cache == loadCache(fileState, items)
       IN  IF cache.err
           THEN result' = Result("Status", "loadError", "error")
           ELSE LET shown == sortByName(cache.data)
                IN  result' = Result("Status", "ok", "none")
    /\ syncRun' = 0
    /\ preDisable' = NoValue
    /\ UNCHANGED <<reg, fileState, items, op, interrupted>>

\* The handler has printed its message and returns; the menu is shown again.
\* The history of a disable is kept for the enable that may follow it.
Return ==
    /\ pc = "done"
    /\ pc' = "menu"
    /\ result' = Result("none", "none", "none")
    /\ preDisable' = IF result.kind = "Disable" THEN preDisable ELSE NoValue
    /\ interrupted' = "none"
    /\ UNCHANGED <<reg, fileState, items, op, syncRun>>

\* Menu choice 7: the process ends.
Exit ==
    /\ pc = "menu"
    /\ pc' = "stopped"
    /\ result' = Result("Exit", "none", "none")
    /\ preDisable' = NoValue
    /\ UNCHANGED <<reg, fileState, items, op, syncRun, interrupted>>

(***************************************************************************)
(* The environment.                                                        *)
(***************************************************************************)
\* The process is killed between the registry call and the cache update.
Crash ==
    /\ pc = "cacheStep"
    /\ pc' = "stopped"
    /\ op' = NoOp
    /\ result' = Result(op.kind, "crash", "none")
    /\ preDisable' = NoValue
    /\ interrupted' = op.kind
    /\ UNCHANGED <<reg, fileState, items, syncRun>>

\* Another program writes or deletes a value of the Run key: between
\* sessions only, or (anytime) also during a session.  During a session the
\* change is taken where its place matters: at the menu, and between the
\* listing of the names and the delete of handleRemoveFromStartup.  The other
\* handlers read the registry in their registry call alone, and no cache
\* update reads it, so a change at another place acts as one at the menu.
ExternalChange(anytime) ==
    /\ IF anytime
       THEN pc \in {"stopped", "menu"} \/ (pc = "registryStep" /\ op.kind = "Remove")
       ELSE pc = "stopped"
    /\ \E n \in Names : \E v \in RegVals(n) :
         /\ v # reg[n]
         /\ anytime \/ v # NonString
         /\ reg' = [reg EXCEPT ![n] = v]
    /\ syncRun' = 0
    /\ UNCHANGED <<fileState, items, pc, op, result, preDisable, interrupted>>

\* The cache file is damaged while no handler is running.
CorruptFile ==
    /\ pc \in {"menu", "stopped"}
    /\ fileState # "corrupt"
    /\ fileState' = "corrupt"
    /\ items' = <<>>
    /\ syncRun' = 0
    /\ UNCHANGED <<reg, pc, op, result, preDisable, interrupted>>

(***************************************************************************)
(* Specifications.  Spec: every fault and every external change.           *)
(* SpecClean: no I/O failure, and the Run key changes only between         *)
(* sessions (no other process mutates it during a session).                *)
(***************************************************************************)
Next ==
    \/ Startup(TRUE)
    \/ handleAddToStartup
    \/ handleAddCommand
    \/ handleRemoveFromStartup(TRUE)
    \/ handleEnable
    \/ handleDisable
    \/ RegistryStep(TRUE)
    \/ CacheStep(TRUE)
    \/ showStartupStatus
    \/ Return
    \/ Exit
    \/ Crash
    \/ ExternalChange(TRUE)
    \/ CorruptFile

Spec == Init /\ [][Next]_vars

NextClean ==
    \/ Startup(FALSE)
    \/ handleAddToStartup
    \/ handleAddCommand
    \/ handleRemoveFromStartup(FALSE)
    \/ handleEnable
    \/ handleDisable
    \/ RegistryStep(FALSE)
    \/ CacheStep(FALSE)
    \/ showStartupStatus
    \/ Return
    \/ Exit
    \/ ExternalChange(FALSE)

SpecClean == InitClean /\ [][NextClean]_vars

(***************************************************************************)
(* Properties.                                                             *)
(***************************************************************************)
\* The registry snapshot of a state: the names holding a string value.
Snapshot == {n \in Names : reg[n] # Absent /\ reg[n] # NonString}

\* A step that is a completed synchronisation (cache loaded, registry read,
\* cache saved).
SyncDone ==
    /\ pc = "stopped"
    /\ pc' = "done"
    /\ result'.kind = "Sync"
    /\ result'.io = "ok"

NamesOf(data) == {data[i].name : i \in 1..Len(data)}

\* C1: after a completed Sync every name of the registry snapshot has a cache
\* item that is enabled and holds the registry's value, whatever the item was
\* before: an existing item is updated where it stands, a new name is
\* appended behind the old items.
SyncEnablesRegistryNames ==
    [][SyncDone =>
         /\ fileState' = "valid"
         /\ \A n \in Snapshot :
              /\ \E i \in 1..Len(items') : items'[i] = CacheItem(n, reg[n], TRUE)
              /\ \A i \in 1..Len(items) :
                    items[i].name = n => items'[i] = CacheItem(n, reg[n], TRUE)
              /\ n \notin NamesOf(items) =>
                    \E i \in (Len(items) + 1)..Len(items') : items'[i].name = n]_vars

\* C1 witness: a Sync has just completed and left an enabled item holding a
\* registry string next to an item it had to disable.
SyncEnabledWitness ==
    /\ pc = "done"
    /\ result = Result("Sync", "ok", "none")
    /\ syncRun = 1
    /\ \E i, j \in 1..Len(items) :
         /\ items[i].enabled
         /\ items[i].name \in Snapshot
         /\ items[i].value = reg[items[i].name]
         /\ ~items[j].enabled

\* C2: after a completed Sync every item that was cached before and whose
\* name is not in the registry snapshot is still cached, disabled, with the
\* value it had; no cached name disappears.
SyncDisablesAbsentNames ==
    [][SyncDone =>
         /\ NamesOf(items) \subseteq NamesOf(items')
         /\ \A i \in 1..Len(items) :
              items[i].name \notin Snapshot =>
                 \E j \in 1..Len(items') :
                    items'[j] = CacheItem(items[i].name, items[i].value, FALSE)]_vars

\* C2 witness: a Sync has just completed and the cache holds a disabled item
\* whose name the registry does not hold.
SyncDisabledWitness ==
    /\ pc = "done"
    /\ result = Result("Sync", "ok", "none")
    /\ syncRun = 1
    /\ \E i \in 1..Len(items) :
         /\ ~items[i].enabled
         /\ reg[items[i].name] = Absent

\* C3: at every operation boundary of a session without failures and
\* without outside changes of the Run key, a cached item is enabled exactly
\* when the registry holds a value under its name, an enabled item holds that
\* value, and every registry name has a cache item.
CacheMirrorsRegistry ==
    pc \in {"done", "menu"} =>
        /\ \A i \in 1..Len(items) :
             /\ items[i].enabled <=> reg[items[i].name] # Absent
             /\ items[i].enabled => items[i].value = reg[items[i].name]
        /\ \A n \in Names : reg[n] # Absent => n \in NamesOf(items)

\* C3 witness: a disable has just ended, with an enabled item and a
\* disabled one in the cache.
CacheMirrorsWitness ==
    /\ pc = "done"
    /\ result.kind = "Disable"
    /\ result.io = "ok"
    /\ \E i, j \in 1..Len(items) : items[i].enabled /\ ~items[j].enabled

\* C4: a second Sync right after a completed Sync, the registry unchanged in
\* between, leaves the cache document as the first one left it.
SyncIdempotent ==
    [][(SyncDone /\ syncRun >= 1) =>
         /\ items' = items
         /\ fileState' = fileState]_vars

\* C4 witness: two Syncs have completed in succession over a cache holding an
\* enabled and a disabled item.
SyncTwiceWitness ==
    /\ pc = "done"
    /\ result = Result("Sync", "ok", "none")
    /\ syncRun = 2
    /\ \E i, j \in 1..Len(items) : items[i].enabled /\ ~items[j].enabled

\* C5: no two items of the cache have the same name.
UniqueNames ==
    \A i, j \in 1..Len(items) : items[i].name = items[j].name => i = j

\* C5 witness: an add handler has updated one of several cached items.
UniqueNamesWitness ==
    /\ pc = "done"
    /\ result.kind = "AddCommand"
    /\ result.io = "ok"
    /\ Len(items) >= 2

\* C6: when the registry set-operation of AddProgram, AddCommand or Enable
\* fails, the handler ends there: the persisted cache is as it was (no item
\* added, a disabled item still disabled) and so is the registry.
RegistryFailureLeavesCache ==
    [][(/\ pc = "registryStep"
        /\ op.kind \in {"AddProgram", "AddCommand", "Enable"}
        /\ result'.io = "regError") =>
          /\ pc' = "done"
          /\ items' = items
          /\ fileState' = fileState
          /\ reg' = reg]_vars

\* C6 witness: an Enable has ended with a registry error and the cache still
\* holds a disabled item.
RegistryFailureWitness ==
    /\ pc = "done"
    /\ result.kind = "Enable"
    /\ result.io = "regError"
    /\ \E i \in 1..Len(items) : ~items[i].enabled

\* C7 (the claim as stated): Disable of an item whose registry value is
\* already gone does not end with the NotFound error; it succeeds.
DisableToleratesMissingValue ==
    (pc = "done" /\ result.kind = "Disable") => result.io # "notFound"

\* C8: Disable deletes the registry value and keeps the item's value in the
\* cache with enabled = false; the Enable that follows writes that value back
\* under the same name, so the registry holds what it held before the
\* disable, and the item is enabled.
DisableEnableRoundTrip ==
    [][/\ (pc = "cacheStep" /\ pc' = "done" /\ op.kind = "Disable") =>
            /\ reg'[op.name] = Absent
            /\ \E i \in 1..Len(items) :
                 /\ items[i].name = op.name
                 /\ items'[i] = CacheItem(op.name, items[i].value, FALSE)
       /\ (/\ pc = "cacheStep" /\ pc' = "done" /\ op.kind = "Enable"
           /\ preDisable.name = op.name) =>
            /\ reg'[op.name] = preDisable.value
            /\ \E i \in 1..Len(items') :
                 items'[i] = CacheItem(op.name, preDisable.value, TRUE)]_vars

\* C8 witness: an item was disabled, then enabled again, and the registry
\* holds its value from before the disable.
RoundTripWitness ==
    /\ pc = "done"
    /\ result.kind = "Enable"
    /\ result.io = "ok"
    /\ preDisable.name \in Names
    /\ reg[preDisable.name] = preDisable.value

\* The items of data whose name is not name, in their order.
Without(data, name) ==
    LET Other(it) == it.name # name IN SelectSeq(data, Other)

RegistryReflectsOp ==
    CASE op.kind = "AddProgram" -> reg[op.name] = [t |-> "quotedAbs", x |-> op.name]
      [] op.kind \in {"AddCommand", "Enable"} -> reg[op.name] = op.value
      [] op.kind \in {"Remove", "Disable"} -> reg[op.name] = Absent
      [] OTHER -> FALSE

\* C10: within a mutating handler the registry is written before the cache
\* file: the cache file is written only by the cache step, and the cache step
\* is entered only from a registry call that has left the registry as the
\* operation wants it, the cache file still untouched.
RegistryBeforeCache ==
    [][/\ (<<fileState, items>>' # <<fileState, items>> /\ fileState' # "corrupt") =>
            pc \in {"cacheStep", "stopped"}
       /\ (pc' = "cacheStep" /\ pc # "cacheStep") =>
            /\ pc = "registryStep"
            /\ op' = op
            /\ UNCHANGED <<fileState, items>>
            /\ RegistryReflectsOp']_vars

\* C10 witness: a Disable between its two steps: the registry value is gone,
\* the cache item still enabled.
RegistryBeforeCacheWitness ==
    /\ pc = "cacheStep"
    /\ op.kind = "Disable"
    /\ reg[op.name] = Absent
    /\ \E i \in 1..Len(items) : items[i].name = op.name /\ items[i].enabled

\* C11: a Sync that completes in the session after a crash between the
\* registry call and the cache update of AddProgram, AddCommand,
\* RemoveProgram, Enable or Disable leaves the cache recovered: every name the
\* registry holds a string under has one item, enabled, with the registry's
\* value, and every item of another name is disabled.
SyncRecoversAfterCrash ==
    [][(SyncDone /\ interrupted # "none") =>
         /\ fileState' = "valid"
         /\ \A n \in Snapshot :
              /\ \E i \in 1..Len(items') : items'[i].name = n
              /\ \A i \in 1..Len(items') :
                    items'[i].name = n => items'[i] = CacheItem(n, reg[n], TRUE)
         /\ \A i \in 1..Len(items') :
              items'[i].name \notin Snapshot => ~items'[i].enabled]_vars

\* C11 witness: a RemoveProgram was cut short after its registry delete, and
\* the Sync of the next session has marked the item it left behind disabled.
SyncRecoversWitness ==
    /\ pc = "done"
    /\ result = Result("Sync", "ok", "none")
    /\ interrupted = "Remove"
    /\ \E i \in 1..Len(items) :
         /\ ~items[i].enabled
         /\ reg[items[i].name] = Absent

\* C12 (the claim as stated): a Sync run against a corrupt cache file, the
\* registry readable and the cache file writable, treats the file as an empty
\* cache: it leaves a valid cache holding exactly one item per registry name,
\* enabled, with the registry's value.
SyncHealsCorruptCache ==
    [][(/\ pc = "stopped"
        /\ pc' = "done"
        /\ fileState = "corrupt"
        /\ result'.io \notin {"regError", "saveError"}) =>
          /\ fileState' = "valid"
          /\ NamesOf(items') = Snapshot
          /\ Len(items') = Cardinality(Snapshot)
          /\ \A i \in 1..Len(items') :
                items'[i] = CacheItem(items'[i].name, reg[items'[i].name], TRUE)]_vars

\* The handlers that write the registry and the cache.
Mutating == {"AddProgram", "AddCommand", "Remove", "Enable", "Disable"}

\* C13 (the claim as stated): no mutating handler ends the process; unless
\* the process is killed from outside, a handler that has started ends with
\* its message and control goes back to the menu, whatever the cache file.
OperationsReturnToMenu ==
    (pc = "stopped" /\ result.kind \in Mutating) => result.io = "crash"

\* C14 (the claim as stated): a mutating handler whose registry call
\* succeeded and whose cache save failed ends with an error message, not with
\* its success message.
SaveFailureSurfaced ==
    (pc = "done" /\ result.kind \in Mutating /\ result.io = "saveError") =>
        result.msg = "error"

\* C15: an AddProgram or AddCommand whose registry call and cache save both
\* succeed is an upsert: afterwards the registry holds the quoted absolute
\* path (AddProgram) or the command as given (AddCommand) under the name, the
\* cache has exactly one item of that name, enabled, with that same value,
\* whatever was there before, and the other items are as they were.
AddIsUpsert ==
    [][(/\ pc = "cacheStep"
        /\ op.kind \in {"AddProgram", "AddCommand"}
        /\ result'.io = "ok") =>
          LET v == IF op.kind = "AddProgram"
                   THEN [t |-> "quotedAbs", x |-> op.name]
                   ELSE op.value
          IN  /\ reg'[op.name] = v
              /\ fileState' = "valid"
              /\ \E i \in 1..Len(items') :
                    /\ items'[i] = CacheItem(op.name, v, TRUE)
                    /\ \A j \in 1..Len(items') : items'[j].name = op.name => j = i
              /\ Without(items', op.name) = Without(items, op.name)]_vars

\* C15 witness: an AddProgram has succeeded over an item that was cached
\* before it (the item stands ahead of another one): registry and cache hold
\* the quoted absolute path under the name, no other item holds a path.
AddIsUpsertWitness ==
    /\ pc = "done"
    /\ result.kind = "AddProgram"
    /\ result.io = "ok"
    /\ \E i \in 1..(Len(items) - 1) :
         /\ items[i] = CacheItem(items[i].name, [t |-> "quotedAbs", x |-> items[i].name], TRUE)
         /\ reg[items[i].name] = items[i].value
         /\ \A j \in 1..Len(items) : j # i => items[j].value = Command

\* The names of the items of data that are in S, in their order.
NameSeq(data, S) ==
    LET InS(it) == it.name \in S
        kept == SelectSeq(data, InS)
    IN  [i \in 1..Len(kept) |-> kept[i].name]

\* C16: showStartupStatus changes neither the cache file (items, values,
\* flags, order) nor the registry; and every step that rewrites the cache
\* keeps the items that stay in the order they had, new items behind them.
StatusReadOnlyOrderKept ==
    [][/\ (pc = "menu" /\ result'.kind = "Status") =>
            UNCHANGED <<reg, fileState, items>>
       /\ items' # items =>
            /\ NameSeq(items', NamesOf(items)) = NameSeq(items, NamesOf(items'))
            /\ \A i, j \in 1..Len(items') :
                 (/\ items'[i].name \in NamesOf(items)
                  /\ items'[j].name \notin NamesOf(items)) => i < j]_vars

\* C16 witness: the status has been shown for a cache whose items are not in
\* the order of their names, and the cache still holds them in that order.
StatusShownWitness ==
    /\ pc = "done"
    /\ result = Result("Status", "ok", "none")
    /\ Len(items) >= 2
    /\ items[1].name > items[2].name

\* C17 (the claim as stated): no step takes an item with enabled = false
\* out of the cache (the file staying a cache): an item that leaves was
\* enabled again first.
DisabledItemNotForgotten ==
    [][(items' # items /\ fileState' # "corrupt") =>
         \A i \in 1..Len(items) :
            ~items[i].enabled => items[i].name \in NamesOf(items')]_vars

\* C17 (amended): RemoveProgram is begun only for a name the registry holds
\* and fails, the cache untouched, when the value is gone by the time of the
\* delete; an item, disabled or not, leaves the cache only by the cache
\* update of a RemoveProgram of its name, whose delete found a value.
DisabledItemLeavesByRemove ==
    [][/\ (pc = "menu" /\ pc' = "registryStep" /\ op'.kind = "Remove") =>
            reg[op'.name] # Absent
       /\ (/\ pc = "registryStep" /\ pc' # "registryStep"
           /\ op.kind = "Remove" /\ reg[op.name] = Absent) =>
            /\ pc' = "done"
            /\ result'.msg = "error"
            /\ UNCHANGED <<fileState, items>>
       /\ (pc = "registryStep" /\ op.kind = "Remove" /\ pc' = "cacheStep") =>
            reg[op.name] # Absent
       /\ (items' # items /\ fileState' # "corrupt") =>
            \A i \in 1..Len(items) :
               items[i].name \notin NamesOf(items') =>
                   /\ pc = "cacheStep"
                   /\ op.kind = "Remove"
                   /\ op.name = items[i].name]_vars

\* C17 witness: a RemoveProgram has deleted the registry value of a name
\* whose cache item is disabled, and is about to drop that item.
DisabledItemRemoveWitness ==
    /\ pc = "cacheStep"
    /\ op.kind = "Remove"
    /\ reg[op.name] = Absent
    /\ \E i \in 1..Len(items) : items[i].name = op.name /\ ~items[i].enabled

\* C18: a completed Sync treats a name whose registry value does not read as
\* a string as a name the registry does not hold: a cached item of that name
\* ends disabled with the value it had, where it stood, and a name that was
\* not cached gets no item.
SyncSkipsUnreadableValues ==
    [][SyncDone =>
         \A n \in Names :
            reg[n] = NonString =>
               /\ \A i \in 1..Len(items) :
                     items[i].name = n =>
                        items'[i] = CacheItem(n, items[i].value, FALSE)
               /\ n \notin NamesOf(items) => n \notin NamesOf(items')]_vars

\* C18 witness: a Sync has completed over a registry with two unreadable
\* values: the cached name is disabled and keeps its string, the other name
\* has no item.
SyncSkipsUnreadableWitness ==
    /\ pc = "done"
    /\ result = Result("Sync", "ok", "none")
    /\ \E i \in 1..Len(items) :
         /\ reg[items[i].name] = NonString
         /\ ~items[i].enabled
         /\ IsString(items[i].value)
    /\ \E n \in Names : reg[n] = NonString /\ n \notin NamesOf(items)

====
